---- MODULE Spec2Model ----
(***************************************************************************)
(* The notification feed of tanmayidev/notification-service.  The          *)
(* repository holds four servers for the same GraphQL API; `variant` says   *)
(* which one is running:                                                    *)
(*   "scalable"   sample-scripts/scalable-notification-service.js           *)
(*                (Postgres + Redis cache + Redis pub/sub)                  *)
(*   "typescript" sample-scripts/typescript-notification-service.ts         *)
(*                (the same design split over Database / resolvers)         *)
(*   "memory"     unnamed/part_005 (in-memory Map + in-process PubSub)      *)
(*   "prisma"     unnamed/part_001 + part_002 (Prisma, four-state enum)     *)
(* In the two cached servers a handler is a chain of awaits on Postgres and *)
(* Redis; several requests (and several worker processes) interleave at     *)
(* every await, so each await is one step of a request slot in `procs`.     *)
(* The handlers of the other two servers have a single effect and are one   *)
(* action each.                                                             *)
(***************************************************************************)
EXTENDS Integers, Sequences, FiniteSets, TLC

\* ---------------------------------------------------------------- bounds
NumProcs == 2
MaxNotes == 3
\* notifications in the slices that need no more than two
FewNotes == 2
MaxClock == 2
MaxLimit == 2
MaxSubs == 1
\* Postgres timestamps are finer than a JavaScript Date (microseconds against
\* milliseconds): the database clock counts ticks, TicksPerMs of them per ms.
TicksPerMs == 2

\* ------------------------------------------------------------ input sets
Variants == {"scalable", "typescript", "memory", "prisma"}
Cached == {"scalable", "typescript"}
Users == {"A", "B"}
Messages == {"hello"}
Procs == 1..NumProcs
SubIds == 1..MaxSubs
Limits == 1..MaxLimit
\* what a caller may send as `state` (a GraphQL enum token or anything else)
StateInputs == {"UNREAD", "READ", "VIEWED", "DISMISSED", "AUTODISMISSED", "BOGUS"}

\* `cursor` absent (undefined): the cache key then ends in 'latest' and
\* pageInfo.endCursor is null.
NoCursor == -1
\* a cursor is an ISO-8601 string with millisecond precision, held as its ms
Cursors == {NoCursor} \cup (0..(MaxClock \div TicksPerMs))

VARIABLES variant, now, store, nextId, cache, subs, pubLog, procs, worker, life, peer

vars == <<variant, now, store, nextId, cache, subs, pubLog, procs, worker, life, peer>>

\* ------------------------------------------------------------- utilities
Min(a, b) == IF a < b THEN a ELSE b

Take(s, k) == SubSeq(s, 1, Min(k, Len(s)))

SeqToSet(s) == {s[i] : i \in 1..Len(s)}

\* every order in which the elements of S can be listed
Orderings(S) ==
    {f \in [1..Cardinality(S) -> S] :
        \A i, j \in 1..Cardinality(S) : i # j => f[i] # f[j]}

\* ORDER BY created_at DESC: rows with equal created_at come in any order
OrderByCreatedAtDesc(S) ==
    {f \in Orderings(S) :
        \A i \in 1..(Cardinality(S) - 1) : f[i].createdAt >= f[i + 1].createdAt}

\* ----------------------------------------------------------- conversions
\* row.created_at.toISOString(): the driver hands the TIMESTAMP over as a Date,
\* which keeps milliseconds only
ToISOString(created_at) == created_at \div TicksPerMs

\* new Date(cursor), bound as the timestamp parameter $3
NewDate(cursor) == cursor * TicksPerMs

\* the row as the resolvers return it (node of an edge, mutation result)
MapRow(row) ==
    [id |-> row.id, userId |-> row.userId, message |-> row.message,
     state |-> row.state, createdAt |-> ToISOString(row.createdAt)]

\* `notifications:${userId}:${cursor || 'latest'}`
CacheKey(userId, cursor) == <<userId, cursor>>

\* redis.keys(`notifications:${userId}:*`)
KeysOf(userId) == {k \in DOMAIN cache : k[1] = userId}

\* ------------------------------------------------------------ the schema
\* enum NotificationState of the running server's typeDefs: GraphQL rejects
\* any other token before the resolver runs
SchemaEnum(v) ==
    IF v = "prisma" THEN {"UNREAD", "VIEWED", "DISMISSED", "AUTODISMISSED"}
    ELSE {"UNREAD", "READ", "DISMISSED"}

\* Object.values(NotificationState).includes(args.state)
ResolverAccepts(v, state) == v = "prisma" => state \in SchemaEnum("prisma")

\* the WHERE clause on state of the feed query: state != 'DISMISSED'
FeedFilter(row) == row.state # "DISMISSED"

\* --------------------------------------------------------------- the bus
\* topic the create mutation publishes on
PublishTopic(v, userId) ==
    IF v = "typescript" THEN <<"NOTIFICATION_ADDED", userId>>
    ELSE <<"NOTIFICATION_ADDED">>

\* topic notificationAdded(userId) iterates over
SubscribeTopic(v, userId) ==
    IF v = "memory" THEN <<"NOTIFICATION_ADDED">>
    ELSE <<"NOTIFICATION_ADDED", userId>>

NoSub ==
    [on |-> FALSE, userId |-> "", topic |-> <<>>, from |-> 0, seq |-> 0, inbox |-> <<>>]

\* pubsub.publish(topic, {notificationAdded: note}): every iterator open on the
\* topic gets the payload once, nobody else does and nothing is kept
Deliver(topic, note) ==
    [s \in SubIds |->
        IF subs[s].on /\ subs[s].topic = topic
        THEN [subs[s] EXCEPT !.inbox = Append(@, note)]
        ELSE subs[s]]

Publish(topic, userId, note) ==
    /\ pubLog' = Append(pubLog, [topic |-> topic, userId |-> userId, note |-> note])
    /\ subs' = Deliver(topic, note)

\* ------------------------------------------------------------- the store
Ids == {store[i].id : i \in 1..Len(store)}

RowOf(id) == CHOOSE r \in SeqToSet(store) : r.id = id

\* UPDATE notifications SET state = $1 WHERE id = $2 / notifications.set(id, n)
SetState(id, state) ==
    [i \in 1..Len(store) |->
        IF store[i].id = id THEN [store[i] EXCEPT !.state = state] ELSE store[i]]

\* SELECT ... WHERE user_id = $1 AND state != 'DISMISSED' [AND created_at < $3]
\* ORDER BY created_at DESC LIMIT n: the possible answers
QueryRows(userId, cursor, n) ==
    {Take(f, n) : f \in OrderByCreatedAtDesc(
        {r \in SeqToSet(store) :
            /\ r.userId = userId
            /\ FeedFilter(r)
            /\ (cursor # NoCursor => r.createdAt < NewDate(cursor))})}

\* rows -> {edges, pageInfo}
BuildConnection(nodes, cursors, limit) ==
    LET n == Min(limit, Len(nodes))
        edges == [i \in 1..n |-> [node |-> nodes[i], cursor |-> cursors[i]]]
    IN  [edges |-> edges,
         pageInfo |-> [hasNextPage |-> Len(nodes) > limit,
                       endCursor |-> IF n > 0 THEN edges[n].cursor ELSE NoCursor]]

\* the feed as the scalable server assembles it from limit+1 rows
ScalableConnection(rows, limit) ==
    BuildConnection([i \in 1..Len(rows) |-> MapRow(rows[i])],
                    [i \in 1..Len(rows) |-> ToISOString(rows[i].createdAt)], limit)

\* the feed as the typescript resolver assembles it from db's notifications
TypescriptConnection(notes, limit) ==
    BuildConnection(notes, [i \in 1..Len(notes) |-> notes[i].createdAt], limit)

\* ------------------------------------------------------ request slots
\* A slot is one client connection: it carries one request at a time through
\* the awaits of its handler (pc), then holds the response (pc = "done") until
\* the client reads it (Return) or sends its next request.  solo and prev
\* record what the client can know about its own calls:
\*   solo   the response is in and no other request has taken a step since
\*   mark   the id the next insert would get when a getFeed read the store:
\*          the rows with a smaller id are those that existed then
\*   basis  the first page a getFeed continues: the mark and the ids of the
\*          client's last response, when the request sends its endCursor
\*   prev   the mutation the client had just been answered when it sent this
\*          read of the same user's feed, no other request running or having
\*          taken a step in between
NoPrev == [op |-> "none", id |-> 0, state |-> ""]

NoBasis == [mark |-> 0, ids |-> {}]

Idle ==
    [pc |-> "idle", op |-> "none", userId |-> "", cursor |-> NoCursor, limit |-> 0,
     id |-> 0, state |-> "", message |-> "", rows |-> <<>>, keys |-> {},
     inv |-> FALSE, solo |-> FALSE, status |-> "", val |-> <<>>,
     fromStore |-> FALSE, prev |-> NoPrev, mark |-> 0, basis |-> NoBasis]

Free(p) == procs[p].pc \in {"idle", "done"}

Quiet(p) == \A q \in Procs \ {p} : Free(q)

\* the slot of a new request op sent on slot p
Fresh(p, op) == [Idle EXCEPT !.op = op]

\* the client's previous call, as a read of u's feed sent on slot p sees it
Previous(p, u) ==
    LET r == procs[p]
    IN  IF /\ r.pc = "done" /\ r.solo /\ Quiet(p)
           /\ r.op \in {"create", "update"} /\ r.status = "ok" /\ r.userId = u
        THEN [op |-> r.op, id |-> r.id, state |-> r.state]
        ELSE NoPrev

\* the first page (no cursor, read from the store) the client of slot p was
\* last answered, when getFeed(u, c, l) asks for the page behind its endCursor
Basis(p, u, c, l) ==
    LET r == procs[p]
    IN  IF /\ r.pc = "done" /\ r.op = "getFeed" /\ r.status = "ok" /\ r.fromStore
           /\ r.userId = u /\ r.limit = l /\ r.cursor = NoCursor
           /\ c # NoCursor
           /\ variant = "scalable"
           /\ r.val.pageInfo.endCursor = c
        THEN [mark |-> r.mark,
              ids |-> {r.val.edges[i].node.id : i \in 1..Len(r.val.edges)}]
        ELSE NoBasis

\* a step of another request ends the solo run of a slot
Disturb(r) == IF r.pc = "idle" THEN r ELSE [r EXCEPT !.solo = FALSE, !.prev = NoPrev]

\* request p goes on as r
Goto(p, r) == procs' = [q \in Procs |-> IF q = p THEN r ELSE Disturb(procs[q])]

\* request p ends with this response
Respond(p, r, status, val, fromStore) ==
    Goto(p, [r EXCEPT !.pc = "done", !.status = status, !.val = val, !.solo = TRUE,
                      !.fromStore = fromStore, !.rows = <<>>, !.keys = {}])

\* the awaits of each handler, in order
GetFlow == <<"get", "query", "set">>
CreateFlowPublishFirst == <<"insert", "publish", "keys", "del">>
CreateFlow == <<"insert", "keys", "del", "publish">>
UpdateFlowPublishing == <<"update", "keys", "del", "publish">>
UpdateFlow == <<"update", "keys", "del">>

Flow(op) ==
    CASE op = "getFeed" -> GetFlow
      [] op = "create" -> CreateFlow
      [] op = "update" -> UpdateFlow

\* the await after pc in the handler of op, "done" after the last
After(op, pc) ==
    LET f == Flow(op)
        i == CHOOSE k \in 1..Len(f) : f[k] = pc
    IN  IF i < Len(f) THEN f[i + 1] ELSE "done"

\* ------------------------------------------------------ the cache's clock
\* CACHE_TTL = 300 seconds, scaled down to two seconds
Ttl == 2

\* redis.set(key, value, 'EX', CACHE_TTL): the entry has Ttl seconds to live
\* and has been there for none.  life keeps the record of a key whose time
\* ran out (ttl = 0), with stale telling whether the page then disagreed
\* with the store; renewed marks an entry written in the place of such a page.
Written == [ttl |-> Ttl, age |-> 0, stale |-> FALSE, renewed |-> FALSE]

\* ---------------------------------------------------- the worker process
\* One server process: its cleanup timer, its Postgres pool, the cleanup run
\* in progress and what Node does with a promise nobody handles.
\*   state    "up", "closing" (shutdown has begun), "exited", "crashed"
\*   timer    the setInterval of the cleanup job is armed
\*   pool     "open" or "ended" (pgPool.end() has been called)
\*   run      "idle", "batch" (a DELETE is in flight), "delay" (between batches)
\*   cutoff   the date the run in progress deletes before
\*   pending  a rejected promise without handler waits for the next tick
\*   last     how the last run ended: "none", "fault" (the store failed),
\*            "refused" (the statement was refused), "complete"
\*   batches  the DELETE statements the run in progress, or the last run, sent
\*   aged     how many rows were older than the cutoff when that run began
\*   deleted  how many rows its batches have deleted
\*   dialect  what the database behind the pool makes of DELETE ... LIMIT
\* The request slots are those of the whole cluster: a request may be served
\* by another worker than the one watched here.
\* the prisma server has no cleanup job
Started(v, d) ==
    [state |-> "up", timer |-> v # "prisma", pool |-> "open", run |-> "idle",
     cutoff |-> 0, pending |-> FALSE, last |-> "none", batches |-> 0, aged |-> 0,
     deleted |-> 0, dialect |-> d]

\* 'DELETE FROM notifications WHERE created_at < $1 LIMIT $2' is sent through
\* pg to whatever server the pool is configured for.  "postgres": PostgreSQL,
\* whose DELETE has no LIMIT clause, refuses it as a syntax error.  "limit":
\* a server of the same protocol whose DELETE has one (CockroachDB) runs it.
Dialects == {"postgres", "limit"}

InitWith(d) ==
    /\ variant \in Variants
    /\ now = 0
    /\ store = <<>>
    /\ nextId = 1
    /\ cache = [k \in {} |-> <<>>]
    /\ subs = [s \in SubIds |-> NoSub]
    /\ pubLog = <<>>
    /\ procs = [p \in Procs |-> Idle]
    /\ worker = Started(variant, d)
    /\ life = [k \in {} |-> Written]
    /\ peer = Started(variant, d)

\* the servers as their sources configure them: on PostgreSQL
Init == InitWith("postgres")

\* the client of slot p has read the response
Return(p) ==
    /\ procs[p].pc = "done"
    /\ procs' = [procs EXCEPT ![p] = Idle]
    /\ UNCHANGED <<variant, peer, life, worker, now, store, nextId, cache, subs, pubLog>>

\* -------------------------------------------------- subscriptions (bus)
\* Subscription.notificationAdded.subscribe: pubsub.asyncIterator(topic)
Subscribe(s, u) ==
    /\ variant # "prisma"
    /\ ~subs[s].on
    /\ subs' = [subs EXCEPT ![s] =
                  [on |-> TRUE, userId |-> u, topic |-> SubscribeTopic(variant, u),
                   from |-> Len(pubLog), seq |-> nextId, inbox |-> <<>>]]
    /\ UNCHANGED <<variant, peer, life, worker, now, store, nextId, cache, pubLog, procs>>

\* the client disconnects: the iterator ends
Unsubscribe(s) ==
    /\ subs[s].on
    /\ subs' = [subs EXCEPT ![s] = NoSub]
    /\ UNCHANGED <<variant, peer, life, worker, now, store, nextId, cache, pubLog, procs>>

\* ------------------------------------ cached servers: getNotificationsForUser
\* what a cache hit returns.  scalable: JSON.parse(cached), the connection as
\* stored.  typescript: db returns the parsed array, whose createdAt are now
\* strings, and the resolver calls createdAt.toISOString() on each of the
\* first `limit` of them: a TypeError unless there is none.
HitStatus(v, cached, limit) ==
    IF v = "typescript" /\ Min(limit, Len(cached)) > 0 THEN "TypeError" ELSE "ok"

HitValue(v, cached, limit) ==
    IF v = "scalable" THEN cached
    ELSE IF Min(limit, Len(cached)) > 0 THEN <<>>
    ELSE TypescriptConnection(cached, limit)

\* what is left of an entry's time to live after redis.get has read it
HitTtlRefreshed(ttl) == Ttl

HitTtl(ttl) == ttl

\* the request arrives; cached = await redis.get(cacheKey); if (cached) return
CacheGet(p, u, c, l) ==
    LET r == [Fresh(p, "getFeed") EXCEPT !.userId = u, !.cursor = c, !.limit = l,
                                         !.prev = Previous(p, u),
                                         !.basis = Basis(p, u, c, l)]
        key == CacheKey(u, c)
    IN  /\ variant \in Cached
        /\ Free(p)
        /\ IF key \in DOMAIN cache
           THEN /\ Respond(p, r, HitStatus(variant, cache[key], l),
                           HitValue(variant, cache[key], l), FALSE)
                /\ life' = [life EXCEPT ![key].ttl = HitTtl(@)]
           ELSE /\ Goto(p, [r EXCEPT !.pc = After("getFeed", "get")])
                /\ UNCHANGED life
        /\ UNCHANGED <<variant, peer, worker, now, store, nextId, cache, subs, pubLog>>

\* LIMIT of the feed query: scalable over-fetches one row, typescript does not
QueryLimit(v, limit) == IF v = "scalable" THEN limit + 1 ELSE limit

\* typescript without cursor: the text says LIMIT $4 and three values are
\* bound, which Postgres refuses
QueryFails(v, cursor) == v = "typescript" /\ cursor = NoCursor

\* await pgPool.query(query, params)
StoreQuery(p) ==
    LET r == procs[p]
    IN  /\ r.pc = "query"
        /\ IF QueryFails(variant, r.cursor)
           THEN Respond(p, r, "StoreError", <<>>, FALSE)
           ELSE \E rows \in QueryRows(r.userId, r.cursor, QueryLimit(variant, r.limit)) :
                    Goto(p, [r EXCEPT !.pc = After(r.op, "query"), !.rows = rows,
                                      !.mark = nextId])
        /\ UNCHANGED <<variant, peer, life, worker, now, store, nextId, cache, subs, pubLog>>

\* what is written to the cache: the connection (scalable), the array of
\* notifications (typescript)
CachedValue(v, rows, limit) ==
    IF v = "scalable" THEN ScalableConnection(rows, limit)
    ELSE [i \in 1..Len(rows) |-> MapRow(rows[i])]

FeedValue(v, rows, limit) ==
    IF v = "scalable" THEN ScalableConnection(rows, limit)
    ELSE TypescriptConnection([i \in 1..Len(rows) |-> MapRow(rows[i])], limit)

\* await redis.set(cacheKey, JSON.stringify(result), 'EX', CACHE_TTL); return
CacheSet(p) ==
    LET r == procs[p]
        key == CacheKey(r.userId, r.cursor)
    IN  /\ r.pc = "set"
        /\ cache' = [k \in DOMAIN cache \cup {key} |->
                        IF k = key THEN CachedValue(variant, r.rows, r.limit)
                        ELSE cache[k]]
        /\ life' = [k \in DOMAIN life \cup {key} |->
                      IF k = key
                      THEN [Written EXCEPT !.renewed = key \in DOMAIN life /\ life[key].stale]
                      ELSE life[k]]
        /\ Respond(p, r, "ok", FeedValue(variant, r.rows, r.limit), TRUE)
        /\ UNCHANGED <<variant, peer, worker, now, store, nextId, subs, pubLog>>

\* a mutation goes on to its next await, or returns the notification
Continue(p, r, nxt) ==
    IF nxt = "done"
    THEN Respond(p, r, "ok", MapRow(r.rows[1]), FALSE)
    ELSE Goto(p, [r EXCEPT !.pc = nxt])

\* ----------------------------------------- cached servers: createNotification
\* INSERT INTO notifications (user_id, message, state) VALUES ($1, $2, 'UNREAD')
\* RETURNING *: id from the SERIAL sequence, created_at DEFAULT CURRENT_TIMESTAMP
NewRow(u, m, t) ==
    [id |-> nextId, userId |-> u, message |-> m, state |-> "UNREAD", createdAt |-> t]

\* what a clock can show when it is read: it never runs backwards, and `now`
\* is its last reading
Readings == now..MaxClock

\* the request arrives; await pgPool.query('INSERT ...')
StoreInsert(p, u, m, t) ==
    LET row == NewRow(u, m, t)
        r == [Fresh(p, "create") EXCEPT !.userId = u, !.message = m,
                                        !.id = row.id, !.rows = <<row>>]
    IN  /\ variant \in Cached
        /\ Free(p)
        /\ nextId <= MaxNotes
        /\ t \in Readings
        /\ now' = t
        /\ store' = Append(store, row)
        /\ nextId' = nextId + 1
        /\ Continue(p, r, After("create", "insert"))
        /\ UNCHANGED <<variant, peer, life, worker, cache, subs, pubLog>>

\* keys = await redis.keys(`notifications:${userId}:*`); with no key the del
\* is skipped
CacheKeys(p) ==
    LET r == procs[p]
        keys == KeysOf(r.userId)
    IN  /\ r.pc = "keys"
        /\ IF keys = {}
           THEN Continue(p, [r EXCEPT !.inv = TRUE], After(r.op, "del"))
           ELSE Goto(p, [r EXCEPT !.pc = "del", !.keys = keys])
        /\ UNCHANGED <<variant, peer, life, worker, now, store, nextId, cache, subs, pubLog>>

\* await redis.del(keys)
CacheDel(p) ==
    LET r == procs[p]
    IN  /\ r.pc = "del"
        /\ cache' = [k \in DOMAIN cache \ r.keys |-> cache[k]]
        /\ life' = [k \in DOMAIN life \ r.keys |-> life[k]]
        /\ Continue(p, [r EXCEPT !.inv = TRUE, !.keys = {}], After(r.op, "del"))
        /\ UNCHANGED <<variant, peer, worker, now, store, nextId, subs, pubLog>>

\* pubsub.publish(topic, {notificationAdded: notification}); return notification
BusPublish(p) ==
    LET r == procs[p]
    IN  /\ r.pc = "publish"
        /\ Publish(PublishTopic(variant, r.userId), r.userId, MapRow(r.rows[1]))
        /\ Continue(p, r, After(r.op, "publish"))
        /\ UNCHANGED <<variant, peer, life, worker, now, store, nextId, cache>>

\* --------------------------------- cached servers: updateUserNotification
MaxId == IF MaxNotes > MaxClock \div TicksPerMs THEN MaxNotes ELSE MaxClock \div TicksPerMs

\* ids a caller may name: those in use and some that are not
IdInputs == 0..MaxId

\* how updateUserNotification(id, state) ends: GraphQL refuses a token outside
\* the enum of the schema (the prisma resolver checks it once more), and the
\* handler throws when no record has the id
UpdateOutcomeNoThrow(v, id, s) ==
    IF s \notin SchemaEnum(v) \/ ~ResolverAccepts(v, s) THEN "InvalidState"
    ELSE IF id \notin Ids THEN "null"
    ELSE "ok"

UpdateOutcome(v, id, s) ==
    IF s \notin SchemaEnum(v) \/ ~ResolverAccepts(v, s) THEN "InvalidState"
    ELSE IF id \notin Ids THEN "NotFound"
    ELSE "ok"

\* the request arrives;
\* UPDATE notifications SET state = $1 WHERE id = $2 RETURNING *; no row:
\* throw new Error('Notification not found').  The owner is rows[0].user_id.
StoreUpdate(p, id, s) ==
    LET r == [Fresh(p, "update") EXCEPT !.id = id, !.state = s]
    IN  /\ variant \in Cached
        /\ Free(p)
        /\ IF UpdateOutcome(variant, id, s) # "ok"
           THEN Respond(p, r, UpdateOutcome(variant, id, s), <<>>, FALSE) /\ UNCHANGED store
           ELSE /\ store' = SetState(id, s)
                /\ Continue(p, [r EXCEPT !.userId = RowOf(id).userId,
                                         !.rows = <<[RowOf(id) EXCEPT !.state = s]>>],
                            After("update", "update"))
        /\ UNCHANGED <<variant, peer, life, worker, now, nextId, cache, subs, pubLog>>

\* ------------------------------------------------ memory server (part_005)
\* Date.now() / new Date().toISOString(): the clock in whole milliseconds
Millis(t) == t \div TicksPerMs

\* notifications.set(id, note): a Map keeps the place of a key it already has
MapSet(note) ==
    IF note.id \in Ids
    THEN [i \in 1..Len(store) |-> IF store[i].id = note.id THEN note ELSE store[i]]
    ELSE Append(store, note)

\* Array.from(notifications.values()).filter(...): in the Map's order
MemFeed(u) ==
    LET Shown(n) == n.userId = u /\ FeedFilter(n)
    IN  SelectSeq(store, Shown)

MemGet(p, u) ==
    /\ variant = "memory"
    /\ Free(p)
    /\ Respond(p, [Fresh(p, "getFeed") EXCEPT !.userId = u, !.prev = Previous(p, u)],
               "ok", MemFeed(u), TRUE)
    /\ UNCHANGED <<variant, peer, life, worker, now, store, nextId, cache, subs, pubLog>>

\* createNotification: id is Date.now().toString(); set, publish, return
MemCreate(p, u, m, t) ==
    LET note == [id |-> Millis(t), userId |-> u, message |-> m, state |-> "UNREAD",
                 createdAt |-> Millis(t)]
    IN  /\ variant = "memory"
        /\ Free(p)
        /\ nextId <= MaxNotes
        /\ t \in Readings
        /\ now' = t
        /\ nextId' = nextId + 1
        /\ store' = MapSet(note)
        /\ Publish(PublishTopic(variant, u), u, note)
        /\ Respond(p, [Fresh(p, "create") EXCEPT !.userId = u, !.message = m,
                                                 !.id = note.id], "ok", note, FALSE)
        /\ UNCHANGED <<variant, peer, life, worker, cache>>

\* updateUserNotification: notifications.get(id), throw when there is none,
\* else notification.state = state
MemUpdate(p, id, s) ==
    LET r == [Fresh(p, "update") EXCEPT !.id = id, !.state = s]
    IN  /\ variant = "memory"
        /\ Free(p)
        /\ IF UpdateOutcome(variant, id, s) # "ok"
           THEN Respond(p, r, UpdateOutcome(variant, id, s), <<>>, FALSE) /\ UNCHANGED store
           ELSE /\ store' = SetState(id, s)
                /\ Respond(p, [r EXCEPT !.userId = RowOf(id).userId], "ok",
                           [RowOf(id) EXCEPT !.state = s], FALSE)
        /\ UNCHANGED <<variant, peer, life, worker, now, nextId, cache, subs, pubLog>>

\* ------------------------------------------ prisma server (part_001, part_002)
\* prisma.notification.findMany({where: {userId, state: {not: DISMISSED}}}):
\* no orderBy, the rows come in any order
PrismaFeed(u) ==
    {[i \in 1..Len(f) |-> MapRow(f[i])] :
        f \in Orderings({r \in SeqToSet(store) : r.userId = u /\ FeedFilter(r)})}

PrismaGet(p, u) ==
    /\ variant = "prisma"
    /\ Free(p)
    /\ \E list \in PrismaFeed(u) :
          Respond(p, [Fresh(p, "getFeed") EXCEPT !.userId = u, !.prev = Previous(p, u)],
                  "ok", list, TRUE)
    /\ UNCHANGED <<variant, peer, life, worker, now, store, nextId, cache, subs, pubLog>>

\* prisma.notification.create({data: {message, state: UNREAD, userId}})
PrismaCreate(p, u, m, t) ==
    LET row == NewRow(u, m, t)
    IN  /\ variant = "prisma"
        /\ Free(p)
        /\ nextId <= MaxNotes
        /\ t \in Readings
        /\ now' = t
        /\ nextId' = nextId + 1
        /\ store' = Append(store, row)
        /\ Respond(p, [Fresh(p, "create") EXCEPT !.userId = u, !.message = m,
                                                 !.id = row.id], "ok", MapRow(row), FALSE)
        /\ UNCHANGED <<variant, peer, life, worker, cache, subs, pubLog>>

\* updateUserNotification: the resolver's own check of `state`, then
\* prisma.notification.update({where: {id}, data: {state}}), which throws when
\* no record has the id
PrismaUpdate(p, id, s) ==
    LET r == [Fresh(p, "update") EXCEPT !.id = id, !.state = s]
    IN  /\ variant = "prisma"
        /\ Free(p)
        /\ IF UpdateOutcome(variant, id, s) # "ok"
           THEN Respond(p, r, UpdateOutcome(variant, id, s), <<>>, FALSE) /\ UNCHANGED store
           ELSE /\ store' = SetState(id, s)
                /\ Respond(p, [r EXCEPT !.userId = RowOf(id).userId], "ok",
                           MapRow([RowOf(id) EXCEPT !.state = s]), FALSE)
        /\ UNCHANGED <<variant, peer, life, worker, now, nextId, cache, subs, pubLog>>

\* Redis drops the entry of key k: its EX time is over, or memory ran short
CacheExpire(k) ==
    /\ variant \in Cached
    /\ k \in DOMAIN cache
    /\ cache' = [j \in DOMAIN cache \ {k} |-> cache[j]]
    /\ life' = [j \in DOMAIN life \ {k} |-> life[j]]
    /\ UNCHANGED <<variant, peer, worker, now, store, nextId, subs, pubLog, procs>>

\* the page cached under key k is not a page the store gives now
Stale(k) ==
    \A l \in Limits :
        cache[k] \notin {CachedValue(variant, rows, l) :
                            rows \in QueryRows(k[1], k[2], QueryLimit(variant, l))}

\* a second passes on the Redis server: every entry is a second older and
\* has a second less to live, and those whose time is over are gone
Tick ==
    /\ variant \in Cached
    /\ DOMAIN cache # {}
    /\ cache' = [k \in {j \in DOMAIN cache : life[j].ttl > 1} |-> cache[k]]
    /\ life' = [k \in DOMAIN life |->
                  IF k \notin DOMAIN cache THEN life[k]
                  ELSE [life[k] EXCEPT !.ttl = @ - 1, !.age = @ + 1,
                                       !.stale = life[k].ttl = 1 /\ Stale(k)]]
    /\ UNCHANGED <<variant, peer, worker, now, store, nextId, subs, pubLog, procs>>

\* ------------------------------------ cached servers: Redis and the bus fail
\* await redis.get(cacheKey) rejects: nothing catches it, the resolver throws
CacheGetFails(p, u, c, l) ==
    LET r == [Fresh(p, "getFeed") EXCEPT !.userId = u, !.cursor = c, !.limit = l]
    IN  /\ variant \in Cached
        /\ Free(p)
        /\ Respond(p, r, "CacheError", <<>>, FALSE)
        /\ UNCHANGED <<variant, peer, life, worker, now, store, nextId, cache, subs, pubLog>>

\* await redis.set(...) rejects after the store was read: the resolver throws
CacheSetFails(p) ==
    /\ procs[p].pc = "set"
    /\ Respond(p, procs[p], "CacheError", <<>>, TRUE)
    /\ UNCHANGED <<variant, peer, life, worker, now, store, nextId, cache, subs, pubLog>>

\* await redis.keys(...) or await redis.del(keys) rejects: the mutation throws
\* after its write to the store
InvalidationFails(p) ==
    /\ procs[p].pc \in {"keys", "del"}
    /\ Respond(p, procs[p], "CacheError", <<>>, FALSE)
    /\ UNCHANGED <<variant, peer, life, worker, now, store, nextId, cache, subs, pubLog>>

\* what createNotification answers when pubsub.publish fails: the promise
\* publish returns is not awaited, so the handler goes on to its return
OnPublishFailureAwaited == "BusError"

OnPublishFailure == "ok"

\* pubsub.publish(...) fails: nothing is delivered, the rejected promise is
\* left without handler
BusPublishFails(p) ==
    LET r == procs[p]
    IN  /\ r.pc = "publish"
        /\ worker.state \in {"up", "closing"}
        /\ Respond(p, r, OnPublishFailure,
                   IF OnPublishFailure = "ok" THEN MapRow(r.rows[1]) ELSE <<>>, FALSE)
        /\ worker' = [worker EXCEPT !.pending = TRUE]
        /\ UNCHANGED <<variant, peer, life, now, store, nextId, cache, subs, pubLog>>

\* a rejected promise without handler: the Node versions that have
\* cluster.isPrimary raise it as an uncaught exception, which ends the process
UnhandledRejection ==
    /\ worker.pending
    /\ worker.state \in {"up", "closing"}
    /\ worker' = [worker EXCEPT !.state = "crashed", !.timer = FALSE,
                                !.run = "idle", !.pending = FALSE]
    /\ UNCHANGED <<variant, peer, life, now, store, nextId, cache, subs, pubLog, procs>>

\* ------------------------------------------------------- the cleanup job
\* RETENTION_DAYS = 7, scaled down to one millisecond of the model's clock
Retention == 1

\* the clock readings of the cleanup job go on after the last request
LateClock == 2 * MaxClock

SweepTimes == 0..LateClock

SweepReadings == now..LateClock

\* BATCH_SIZE = 100 (scalable), 1000 (typescript), scaled down
BatchSize == 2

\* 'DELETE FROM notifications WHERE created_at < $1 LIMIT $2': PostgreSQL's
\* DELETE has no LIMIT clause, the statement is refused as a syntax error
DeleteRefused(v) == v \in Cached /\ worker.dialect = "postgres"

\* sevenDaysAgo: a Date, in milliseconds
Cutoff(t) == Millis(t) - Retention

\* the rows that created_at < $1 selects: the column holds microseconds in
\* PostgreSQL, milliseconds in the memory server's Map
Old(cutoff) ==
    {r \in SeqToSet(store) :
        r.createdAt < (IF variant = "memory" THEN cutoff ELSE cutoff * TicksPerMs)}

\* the store without the rows in gone
Without(gone) ==
    LET Kept(r) == r \notin gone
    IN  SelectSeq(store, Kept)

\* the interval fires: cleanupOldNotifications() runs up to its first await,
\* the first DELETE is on its way
TimerFire(t) ==
    /\ variant \in Cached
    /\ worker.timer
    /\ worker.state \in {"up", "closing"}
    /\ worker.run = "idle"
    /\ t \in SweepReadings
    /\ now' = t
    /\ worker' = [worker EXCEPT !.run = "batch", !.cutoff = Cutoff(t), !.batches = 1,
                                !.aged = Cardinality(Old(Cutoff(t))), !.deleted = 0]
    /\ UNCHANGED <<variant, peer, life, store, nextId, cache, subs, pubLog, procs>>

\* the cache after a batch that deleted the rows in gone, had the job removed
\* the pages of their users
SweptCacheInvalidating(gone) ==
    [k \in {j \in DOMAIN cache : \A r \in gone : r.userId # j[1]} |-> cache[k]]

\* the cache after a batch that deleted the rows in gone: the job makes no
\* call to Redis
SweptCache(gone) == cache

\* the loop ends after a batch of n rows: if (rowCount < BATCH_SIZE) break,
\* while (deleted === this.BATCH_SIZE)
LastBatchWhenEmpty(n) == n = 0

LastBatch(n) == n < BatchSize

\* how a run ends when its DELETE is rejected
Rejected(fault) == IF fault THEN "fault" ELSE "refused"

\* the DELETE comes back.  Rejected (the pool has ended, the store failed,
\* the statement is refused): the run is over and its promise rejects with
\* nobody to handle it.  Otherwise up to BatchSize old rows are gone, and
\* the loop goes on after a delay when the batch was full.
SweepReply(fault) ==
    /\ worker.run = "batch"
    /\ worker.state \in {"up", "closing"}
    /\ IF worker.pool = "ended" \/ fault \/ DeleteRefused(variant)
       THEN /\ worker' = [worker EXCEPT !.run = "idle", !.pending = TRUE,
                                        !.last = Rejected(fault)]
            /\ UNCHANGED <<store, cache, life>>
       ELSE \E gone \in SUBSET Old(worker.cutoff) :
               /\ Cardinality(gone) = Min(BatchSize, Cardinality(Old(worker.cutoff)))
               /\ store' = Without(gone)
               /\ cache' = SweptCache(gone)
               /\ life' = [k \in DOMAIN life \ (DOMAIN cache \ DOMAIN SweptCache(gone)) |-> life[k]]
               /\ IF LastBatch(Cardinality(gone))
                  THEN worker' = [worker EXCEPT !.run = "idle", !.last = "complete",
                                                !.deleted = @ + Cardinality(gone)]
                  ELSE worker' = [worker EXCEPT !.run = "delay",
                                                !.deleted = @ + Cardinality(gone)]
    /\ UNCHANGED <<variant, peer, now, nextId, subs, pubLog, procs>>

\* the 100 ms between batches are over: the next DELETE is on its way (the
\* typescript server computes the date anew for every batch)
SweepDelay(t) ==
    /\ worker.run = "delay"
    /\ worker.state \in {"up", "closing"}
    /\ t \in SweepReadings
    /\ now' = t
    /\ worker' = [worker EXCEPT !.run = "batch", !.batches = @ + 1,
                     !.cutoff = IF variant = "typescript" THEN Cutoff(t) ELSE @]
    /\ UNCHANGED <<variant, peer, life, store, nextId, cache, subs, pubLog, procs>>

\* memory server: the interval fires and the callback removes, in one go,
\* every notification whose createdAt is before sevenDaysAgo
MemSweep(t) ==
    /\ variant = "memory"
    /\ worker.timer
    /\ worker.state = "up"
    /\ t \in SweepReadings
    /\ now' = t
    /\ store' = Without(Old(Cutoff(t)))
    /\ worker' = [worker EXCEPT !.cutoff = Cutoff(t), !.last = "complete",
                                !.batches = 0, !.aged = Cardinality(Old(Cutoff(t))),
                                !.deleted = Cardinality(Old(Cutoff(t)))]
    /\ UNCHANGED <<variant, peer, life, nextId, cache, subs, pubLog, procs>>

\* ------------------------------------------------- a second worker's job
\* cluster.fork() once per CPU: every worker process runs the same file, so
\* each has its own interval and its own batch loop on the shared store.
\* peer is the cleanup job of a second worker.
PeerFire(t) ==
    /\ variant \in Cached
    /\ peer.timer
    /\ peer.state = "up"
    /\ peer.run = "idle"
    /\ t \in SweepReadings
    /\ now' = t
    /\ peer' = [peer EXCEPT !.run = "batch", !.cutoff = Cutoff(t), !.batches = 1,
                            !.aged = Cardinality(Old(Cutoff(t))), !.deleted = 0]
    /\ UNCHANGED <<variant, worker, life, store, nextId, cache, subs, pubLog, procs>>

\* the second worker's DELETE comes back
PeerReply(fault) ==
    /\ peer.run = "batch"
    /\ peer.state = "up"
    /\ IF fault \/ DeleteRefused(variant)
       THEN /\ peer' = [peer EXCEPT !.run = "idle", !.pending = TRUE,
                                    !.last = Rejected(fault)]
            /\ UNCHANGED <<store, cache, life>>
       ELSE \E gone \in SUBSET Old(peer.cutoff) :
               /\ Cardinality(gone) = Min(BatchSize, Cardinality(Old(peer.cutoff)))
               /\ store' = Without(gone)
               /\ cache' = SweptCache(gone)
               /\ life' = [k \in DOMAIN life \ (DOMAIN cache \ DOMAIN SweptCache(gone)) |-> life[k]]
               /\ IF LastBatch(Cardinality(gone))
                  THEN peer' = [peer EXCEPT !.run = "idle", !.last = "complete",
                                            !.deleted = @ + Cardinality(gone)]
                  ELSE peer' = [peer EXCEPT !.run = "delay",
                                            !.deleted = @ + Cardinality(gone)]
    /\ UNCHANGED <<variant, worker, now, nextId, subs, pubLog, procs>>

\* the second worker's 100 ms are over
PeerDelay(t) ==
    /\ peer.run = "delay"
    /\ peer.state = "up"
    /\ t \in SweepReadings
    /\ now' = t
    /\ peer' = [peer EXCEPT !.run = "batch", !.batches = @ + 1,
                   !.cutoff = IF variant = "typescript" THEN Cutoff(t) ELSE @]
    /\ UNCHANGED <<variant, worker, life, store, nextId, cache, subs, pubLog, procs>>

\* the second worker's rejected run takes its process down
PeerRejection ==
    /\ peer.pending
    /\ peer.state = "up"
    /\ peer' = [peer EXCEPT !.state = "crashed", !.timer = FALSE,
                            !.run = "idle", !.pending = FALSE]
    /\ UNCHANGED <<variant, worker, life, now, store, nextId, cache, subs, pubLog, procs>>

\* --------------------------------------------------------------- shutdown
\* SIGTERM.  typescript: server.close() starts with cleanup.stop(), that is
\* clearInterval.  scalable: closeGracefully awaits fastify.close(); the
\* interval stays armed.
CloseBegin ==
    /\ variant \in Cached
    /\ worker.state = "up"
    /\ worker' = [worker EXCEPT !.state = "closing",
                     !.timer = IF variant = "typescript" THEN FALSE ELSE @]
    /\ UNCHANGED <<variant, peer, life, now, store, nextId, cache, subs, pubLog, procs>>

\* await pgPool.end() / await this.pool.end(): the pool lets a query in
\* flight finish first
PoolEnd ==
    /\ worker.state = "closing"
    /\ worker.pool = "open"
    /\ worker.run # "batch"
    /\ worker' = [worker EXCEPT !.pool = "ended"]
    /\ UNCHANGED <<variant, peer, life, now, store, nextId, cache, subs, pubLog, procs>>

\* redis.quit(), pubsub.close() and then process.exit(0)
Exit ==
    /\ worker.state = "closing"
    /\ worker.pool = "ended"
    /\ worker' = [worker EXCEPT !.state = "exited", !.timer = FALSE, !.run = "idle",
                                !.pending = FALSE]
    /\ UNCHANGED <<variant, peer, life, now, store, nextId, cache, subs, pubLog, procs>>

\* ------------------------------------------------------- specifications
Times == 0..MaxClock

\* the whole program: every request, from every client, at any time
Next ==
    \/ \E p \in Procs : Return(p)
    \/ \E s \in SubIds, u \in Users : Subscribe(s, u)
    \/ \E s \in SubIds : Unsubscribe(s)
    \/ \E p \in Procs, u \in Users, c \in Cursors, l \in Limits : CacheGet(p, u, c, l)
    \/ \E p \in Procs : StoreQuery(p)
    \/ \E p \in Procs : CacheSet(p)
    \/ \E p \in Procs, u \in Users, m \in Messages, t \in Times : StoreInsert(p, u, m, t)
    \/ \E p \in Procs : CacheKeys(p)
    \/ \E p \in Procs : CacheDel(p)
    \/ \E p \in Procs : BusPublish(p)
    \/ \E p \in Procs, id \in IdInputs, s \in StateInputs : StoreUpdate(p, id, s)
    \/ \E p \in Procs, u \in Users : MemGet(p, u)
    \/ \E p \in Procs, u \in Users, m \in Messages, t \in Times : MemCreate(p, u, m, t)
    \/ \E p \in Procs, id \in IdInputs, s \in StateInputs : MemUpdate(p, id, s)
    \/ \E p \in Procs, u \in Users : PrismaGet(p, u)
    \/ \E p \in Procs, u \in Users, m \in Messages, t \in Times : PrismaCreate(p, u, m, t)
    \/ \E p \in Procs, id \in IdInputs, s \in StateInputs : PrismaUpdate(p, id, s)
    \/ \E p \in Procs, u \in Users, c \in Cursors, l \in Limits : CacheGetFails(p, u, c, l)
    \/ \E p \in Procs : CacheSetFails(p)
    \/ \E p \in Procs : InvalidationFails(p)
    \/ \E p \in Procs : BusPublishFails(p)
    \/ UnhandledRejection
    \/ \E u \in Users, c \in Cursors : CacheExpire(CacheKey(u, c))
    \/ Tick
    \/ \E t \in SweepTimes : PeerFire(t)
    \/ \E fault \in BOOLEAN : PeerReply(fault)
    \/ \E t \in SweepTimes : PeerDelay(t)
    \/ PeerRejection
    \/ \E t \in SweepTimes : TimerFire(t)
    \/ \E fault \in BOOLEAN : SweepReply(fault)
    \/ \E t \in SweepTimes : SweepDelay(t)
    \/ \E t \in SweepTimes : MemSweep(t)
    \/ CloseBegin
    \/ PoolEnd
    \/ Exit

Spec == Init /\ [][Next]_vars

\* One client, one user: the requests of a single connection, each sent after
\* the response to the one before (the sequential tests of the feed).
Client == {1}
OneUser == {"A"}

SeqNext ==
    \/ \E p \in Client : Return(p)
    \/ \E p \in Client, u \in OneUser, c \in Cursors, l \in Limits : CacheGet(p, u, c, l)
    \/ \E p \in Client : StoreQuery(p)
    \/ \E p \in Client : CacheSet(p)
    \/ \E p \in Client, u \in OneUser, m \in Messages, t \in Times :
          nextId <= FewNotes /\ StoreInsert(p, u, m, t)
    \/ \E p \in Client : CacheKeys(p)
    \/ \E p \in Client : CacheDel(p)
    \/ \E p \in Client : BusPublish(p)
    \/ \E p \in Client, id \in IdInputs, s \in StateInputs : StoreUpdate(p, id, s)
    \/ \E p \in Client, u \in OneUser : MemGet(p, u)
    \/ \E p \in Client, u \in OneUser, m \in Messages, t \in Times :
          nextId <= FewNotes /\ MemCreate(p, u, m, t)
    \/ \E p \in Client, id \in IdInputs, s \in StateInputs : MemUpdate(p, id, s)
    \/ \E p \in Client, u \in OneUser : PrismaGet(p, u)
    \/ \E p \in Client, u \in OneUser, m \in Messages, t \in Times :
          nextId <= FewNotes /\ PrismaCreate(p, u, m, t)
    \/ \E p \in Client, id \in IdInputs, s \in StateInputs : PrismaUpdate(p, id, s)

SpecSeq == Init /\ [][SeqNext]_vars

\* Several clients of one user's feed, reading and writing at once on the
\* cached servers: every interleaving of the awaits of getNotificationsForUser,
\* createNotification and updateUserNotification.
RaceInit == Init /\ variant \in Cached

\* the first page and one page behind a cursor; the page size plays no part
\* in the race, nor do the states other than DISMISSED
RaceCursors == {NoCursor, MaxClock \div TicksPerMs}
RaceLimits == {1}
RaceStates == {"DISMISSED"}
RaceIds == 0..FewNotes

RaceNext ==
    \/ \E p \in Procs : Return(p)
    \/ \E p \in Procs, u \in OneUser, c \in RaceCursors, l \in RaceLimits : CacheGet(p, u, c, l)
    \/ \E p \in Procs : StoreQuery(p)
    \/ \E p \in Procs : CacheSet(p)
    \/ \E p \in Procs, u \in OneUser, m \in Messages, t \in Times :
          nextId <= FewNotes /\ StoreInsert(p, u, m, t)
    \/ \E p \in Procs : CacheKeys(p)
    \/ \E p \in Procs : CacheDel(p)
    \/ \E p \in Procs : BusPublish(p)
    \/ \E p \in Procs, id \in RaceIds, s \in RaceStates : StoreUpdate(p, id, s)

SpecRace == RaceInit /\ [][RaceNext]_vars

\* Subscribers of two users and one client creating and dismissing
\* notifications: the bus.
BusInit == Init /\ variant # "prisma"

BusNext ==
    \/ \E p \in Client : Return(p)
    \/ \E s \in SubIds, u \in Users : Subscribe(s, u)
    \/ \E s \in SubIds : Unsubscribe(s)
    \/ \E p \in Client, u \in Users, m \in Messages, t \in Times :
          nextId <= FewNotes /\ StoreInsert(p, u, m, t)
    \/ \E p \in Client : CacheKeys(p)
    \/ \E p \in Client : BusPublish(p)
    \/ \E p \in Client, u \in Users, m \in Messages, t \in Times :
          nextId <= FewNotes /\ MemCreate(p, u, m, t)
    \/ \E p \in Client, id \in RaceIds, s \in RaceStates : StoreUpdate(p, id, s)
    \/ \E p \in Client, id \in RaceIds, s \in RaceStates : MemUpdate(p, id, s)

SpecBus == BusInit /\ [][BusNext]_vars

\* One client of one user on the cached servers while Redis and the bus may
\* fail at any call.
FaultInit == Init /\ variant \in Cached

FaultNext ==
    \/ \E p \in Client : Return(p)
    \/ \E p \in Client, u \in OneUser, c \in Cursors, l \in RaceLimits : CacheGet(p, u, c, l)
    \/ \E p \in Client : StoreQuery(p)
    \/ \E p \in Client : CacheSet(p)
    \/ \E p \in Client, u \in OneUser, m \in Messages, t \in Times :
          nextId <= FewNotes /\ StoreInsert(p, u, m, t)
    \/ \E p \in Client : CacheKeys(p)
    \/ \E p \in Client : CacheDel(p)
    \/ \E p \in Client : BusPublish(p)
    \/ \E p \in Client, u \in OneUser, c \in Cursors, l \in RaceLimits :
          CacheGetFails(p, u, c, l)
    \/ \E p \in Client : CacheSetFails(p)
    \/ \E p \in Client : InvalidationFails(p)
    \/ \E p \in Client : BusPublishFails(p)
    \/ UnhandledRejection

SpecFault == FaultInit /\ [][FaultNext]_vars

\* One client of a cached server, one request after the other with one
\* limit, while Redis may drop any entry at any time; no cleanup run.
EquivInit == Init /\ variant \in Cached

EquivNext ==
    \/ \E p \in Client : Return(p)
    \/ \E p \in Client, u \in OneUser, c \in Cursors, l \in RaceLimits : CacheGet(p, u, c, l)
    \/ \E p \in Client : StoreQuery(p)
    \/ \E p \in Client : CacheSet(p)
    \/ \E p \in Client, u \in OneUser, m \in Messages, t \in Times :
          nextId <= FewNotes /\ StoreInsert(p, u, m, t)
    \/ \E p \in Client : CacheKeys(p)
    \/ \E p \in Client : CacheDel(p)
    \/ \E p \in Client : BusPublish(p)
    \/ \E p \in Client, id \in IdInputs, s \in StateInputs : StoreUpdate(p, id, s)
    \/ \E u \in OneUser, c \in Cursors : CacheExpire(CacheKey(u, c))

SpecEquiv == EquivInit /\ [][EquivNext]_vars

\* The cleanup job and the shutdown of one worker, while a client creates
\* notifications and reads the feed.
SweepInit ==
    /\ \E d \in Dialects : InitWith(d) /\ (d = "postgres" \/ variant \in Cached)
    /\ variant # "prisma"

SweepNext ==
    \/ \E p \in Client : Return(p)
    \/ \E p \in Client, u \in OneUser, m \in Messages, t \in Times :
          nextId <= MaxNotes /\ StoreInsert(p, u, m, t)
    \/ \E p \in Client : CacheKeys(p)
    \/ \E p \in Client : CacheDel(p)
    \/ \E p \in Client : BusPublish(p)
    \/ \E p \in Client, u \in OneUser, c \in RaceCursors, l \in RaceLimits : CacheGet(p, u, c, l)
    \/ \E p \in Client : StoreQuery(p)
    \/ \E p \in Client : CacheSet(p)
    \/ \E p \in Client, u \in OneUser, m \in Messages, t \in Times :
          nextId <= FewNotes /\ MemCreate(p, u, m, t)
    \/ \E p \in Client, u \in OneUser : MemGet(p, u)
    \/ \E t \in SweepTimes : TimerFire(t)
    \/ \E fault \in BOOLEAN : SweepReply(fault)
    \/ \E t \in SweepTimes : SweepDelay(t)
    \/ \E t \in SweepTimes : MemSweep(t)
    \/ UnhandledRejection
    \/ CloseBegin
    \/ PoolEnd
    \/ Exit

SpecSweep == SweepInit /\ [][SweepNext]_vars

\* the event loop serves every pending reply and every timer that is due
SpecSweepFair ==
    /\ SpecSweep
    /\ WF_vars(\E fault \in BOOLEAN : SweepReply(fault))
    /\ WF_vars(\E t \in SweepTimes : SweepDelay(t))

\* The cleanup jobs of two workers on the shared store, while a client
\* creates notifications; the store and the connections are healthy.
PeersInit == (\E d \in Dialects : InitWith(d)) /\ variant \in Cached

PeersNext ==
    \/ \E p \in Client : Return(p)
    \/ \E p \in Client, u \in OneUser, m \in Messages, t \in Times :
          nextId <= MaxNotes /\ StoreInsert(p, u, m, t)
    \/ \E p \in Client : CacheKeys(p)
    \/ \E p \in Client : BusPublish(p)
    \/ \E t \in SweepTimes : TimerFire(t)
    \/ SweepReply(FALSE)
    \/ \E t \in SweepTimes : SweepDelay(t)
    \/ UnhandledRejection
    \/ \E t \in SweepTimes : PeerFire(t)
    \/ PeerReply(FALSE)
    \/ \E t \in SweepTimes : PeerDelay(t)
    \/ PeerRejection

SpecPeers == PeersInit /\ [][PeersNext]_vars

\* the event loop of each worker serves its replies and its timers
SpecPeersFair ==
    /\ SpecPeers
    /\ WF_vars(SweepReply(FALSE))
    /\ WF_vars(\E t \in SweepTimes : SweepDelay(t))
    /\ WF_vars(PeerReply(FALSE))
    /\ WF_vars(\E t \in SweepTimes : PeerDelay(t))

\* Paging through one user's feed on the scalable server while notifications
\* arrive, no two of them at the same reading of the clock: one client reads
\* pages, the others create notifications.
PageInit == Init /\ variant = "scalable"

Reader == {1}

PageNext ==
    \/ \E p \in Reader, u \in OneUser, c \in Cursors, l \in RaceLimits : CacheGet(p, u, c, l)
    \/ \E p \in Reader : StoreQuery(p)
    \/ \E p \in Reader : CacheSet(p)
    \/ \E p \in Procs \ Reader, u \in OneUser, m \in Messages, t \in Times :
          (store = <<>> \/ t > now) /\ StoreInsert(p, u, m, t)
    \/ \E p \in Procs \ Reader : CacheKeys(p)
    \/ \E p \in Procs \ Reader : CacheDel(p)
    \/ \E p \in Procs \ Reader : BusPublish(p)

SpecPage == PageInit /\ [][PageNext]_vars

\* The feeds of two users on the cached servers: one client reads pages, the
\* other creates and dismisses notifications, every interleaving of their
\* awaits.
InvalInit == Init /\ variant \in Cached

Writer == Procs \ Reader

InvalNext ==
    \/ \E p \in Procs : Return(p)
    \/ \E p \in Reader, u \in Users, c \in RaceCursors, l \in RaceLimits : CacheGet(p, u, c, l)
    \/ \E p \in Reader : StoreQuery(p)
    \/ \E p \in Reader : CacheSet(p)
    \/ \E p \in Writer, u \in Users, m \in Messages, t \in Times :
          nextId <= FewNotes /\ StoreInsert(p, u, m, t)
    \/ \E p \in Writer : CacheKeys(p)
    \/ \E p \in Writer : CacheDel(p)
    \/ \E p \in Writer : BusPublish(p)
    \/ \E p \in Writer, id \in RaceIds, s \in RaceStates : StoreUpdate(p, id, s)

SpecInval == InvalInit /\ [][InvalNext]_vars

\* One reader and one writer of one user's feed on the cached servers while
\* the seconds pass on the Redis server.
TtlInit == Init /\ variant \in Cached

TtlNext ==
    \/ \E p \in Procs : Return(p)
    \/ \E p \in Reader, u \in OneUser, c \in RaceCursors, l \in RaceLimits : CacheGet(p, u, c, l)
    \/ \E p \in Reader : StoreQuery(p)
    \/ \E p \in Reader : CacheSet(p)
    \/ \E p \in Writer, u \in OneUser, m \in Messages, t \in Times :
          nextId <= FewNotes /\ StoreInsert(p, u, m, t)
    \/ \E p \in Writer : CacheKeys(p)
    \/ \E p \in Writer : CacheDel(p)
    \/ \E p \in Writer : BusPublish(p)
    \/ Tick

SpecTtl == TtlInit /\ [][TtlNext]_vars

\* ================================================================ properties
\* the notifications of a getFeed response, in the order returned
Nodes(r) ==
    IF variant \in Cached
    THEN [i \in 1..Len(r.val.edges) |-> r.val.edges[i].node]
    ELSE r.val

NodeIds(r) == {Nodes(r)[i].id : i \in 1..Len(Nodes(r))}

\* slot p holds the successful response to a getFeed
Answered(p) ==
    /\ procs[p].pc = "done"
    /\ procs[p].op = "getFeed"
    /\ procs[p].status = "ok"

\* the notifications of u the store would show
Visible(u) == {r \in SeqToSet(store) : r.userId = u /\ FeedFilter(r)}

\* ------------------------------------------------------------------- C1
\* C1: when a create for user u has returned and the same client then asks
\* getFeed(u) without cursor, the first edge of the connection is the new
\* notification.  Stated for the scalable server.
C1_NewestFirstAfterCreate ==
    \A p \in Procs :
        (/\ variant = "scalable"
         /\ Answered(p)
         /\ procs[p].cursor = NoCursor
         /\ procs[p].prev.op = "create")
        => (/\ Len(Nodes(procs[p])) >= 1
            /\ Nodes(procs[p])[1].id = procs[p].prev.id)

\* ------------------------------------------------------------------- C2
\* C2: a getFeed(u) without cursor that starts after a notification of u was
\* published returns that notification (as long as it is not dismissed and
\* the page has room for all of u's visible notifications), in every
\* interleaving.  Checked on the step that answers from the cache, which is
\* the start and the end of the request at once.
C2_NoStaleReadAfterPush ==
    [][\A p \in Procs, u \in Users, l \in Limits :
          (/\ CacheGet(p, u, NoCursor, l)
           /\ procs'[p].pc = "done"
           /\ procs'[p].status = "ok"
           /\ variant = "scalable"
           /\ Cardinality(Visible(u)) <= l)
          => \A i \in 1..Len(pubLog) :
                (pubLog[i].userId = u /\ pubLog[i].note.id \in {r.id : r \in Visible(u)})
                => pubLog[i].note.id \in NodeIds(procs'[p])]_vars

\* ------------------------------------------------------------------- C3
\* C3: create works in the order store write, cache invalidation, publish:
\* when the invalidation reads or deletes the user's keys the notification is
\* in the store, and when the event goes on the bus the notification is in
\* the store and the invalidation has completed.
C3_WriteInvalidatePublish ==
    [][\A p \in Procs :
          /\ (procs[p].op = "create" /\ (CacheKeys(p) \/ CacheDel(p)))
                => procs[p].id \in Ids
          /\ BusPublish(p) => (procs[p].id \in Ids /\ procs[p].inv)]_vars

\* a create has gone through all its steps: its notification is in the store
\* and on the bus, and its invalidation deleted the page another client's
\* getFeed had cached
C3_Witness ==
    \E p \in Procs :
        /\ procs[p].pc = "done" /\ procs[p].op = "create" /\ procs[p].status = "ok"
        /\ procs[p].inv
        /\ procs[p].id \in Ids
        /\ \E i \in 1..Len(pubLog) : pubLog[i].note.id = procs[p].id
        /\ cache = [k \in {} |-> <<>>]
        /\ \E q \in Procs \ {p} : Answered(q) /\ procs[q].fromStore

\* ------------------------------------------------------------------- C4
Count(seq, x) == Cardinality({i \in 1..Len(seq) : seq[i] = x})

\* the create that published pubLog[i] was called after s subscribed
CalledAfter(s, i) == pubLog[i].note.id >= subs[s].seq

\* C4: a subscriber of u that subscribed before create(u, m) was called has
\* received exactly one push for it, the created notification; one that
\* subscribed after the publish has received none.  Stated for the servers
\* whose ids are serial, where a payload names its create.
C4_ExactlyOnePush ==
    \A s \in SubIds :
        (variant \in Cached /\ subs[s].on)
        => \A i \in 1..Len(pubLog) :
              pubLog[i].userId = subs[s].userId
              => /\ CalledAfter(s, i) => Count(subs[s].inbox, pubLog[i].note) = 1
                 /\ i <= subs[s].from => Count(subs[s].inbox, pubLog[i].note) = 0

\* ------------------------------------------------------------------- C5
\* C5: every notification a subscriber of user A has received was created
\* for A.
C5_KeyedByUser ==
    \A s \in SubIds :
        subs[s].on
        => \A i \in 1..Len(subs[s].inbox) : subs[s].inbox[i].userId = subs[s].userId

\* ------------------------------------------------------------------- C6
\* C6: when updateState(n.id, DISMISSED) has returned and the same client then
\* asks getFeed(owner of n), with any cursor and nothing in between, no edge
\* of the result has id n.id.
C6_DismissedExcluded ==
    \A p \in Procs :
        (/\ Answered(p)
         /\ procs[p].prev.op = "update"
         /\ procs[p].prev.state = "DISMISSED")
        => procs[p].prev.id \notin NodeIds(procs[p])

\* ------------------------------------------------------------------- C7
\* C7: a getFeed answered from the store returns no notification whose state
\* is DISMISSED or AUTODISMISSED.
C7_FeedHidesDismissed ==
    \A p \in Procs :
        (Answered(p) /\ procs[p].fromStore)
        => \A i \in 1..Len(Nodes(procs[p])) :
              Nodes(procs[p])[i].state \notin {"DISMISSED", "AUTODISMISSED"}

\* ------------------------------------------------------------------- C8
\* updateState(id, s) called on slot p, on whichever server runs
UpdateStep(p, id, s) ==
    \/ StoreUpdate(p, id, s)
    \/ MemUpdate(p, id, s)
    \/ PrismaUpdate(p, id, s)

Terminal == {"DISMISSED", "AUTODISMISSED"}

Allowed(old, new) ==
    /\ old \notin Terminal
    /\ \/ new = "AUTODISMISSED"
       \/ <<old, new>> \in {<<"UNREAD", "VIEWED">>, <<"UNREAD", "DISMISSED">>,
                            <<"VIEWED", "DISMISSED">>}

\* C8: an updateState that changes the store moves the notification along an
\* allowed transition (UNREAD to VIEWED, UNREAD to DISMISSED, VIEWED to
\* DISMISSED, or to AUTODISMISSED), and never out of DISMISSED or
\* AUTODISMISSED.  Stated for the prisma server, whose enum has these four
\* states.
C8_AllowedTransitionsOnly ==
    [][\A p \in Procs, id \in IdInputs, s \in StateInputs :
          (variant = "prisma" /\ UpdateStep(p, id, s) /\ id \in Ids /\ store' # store)
          => Allowed(RowOf(id).state, s)]_vars

\* ------------------------------------------------------------------- C9
SpecStates == {"UNREAD", "VIEWED", "DISMISSED", "AUTODISMISSED"}

\* C9: updateState(id, X) on an existing record with X outside {UNREAD,
\* VIEWED, DISMISSED, AUTODISMISSED} fails with InvalidState and leaves the
\* store, the cache and the bus as they were.
C9_InvalidStateRejected ==
    [][\A p \in Procs, id \in IdInputs, s \in StateInputs :
          (UpdateStep(p, id, s) /\ id \in Ids /\ s \notin SpecStates)
          => /\ procs'[p].status = "InvalidState"
             /\ UNCHANGED <<store, cache, subs, pubLog>>]_vars

PageSource(u, c) ==
    {r \in Visible(u) : c # NoCursor => ToISOString(r.createdAt) < c}

\* C11: a getFeed(u, cursor, limit) answered from the store has exactly
\* min(limit, k) edges, newest first, where k is the number of visible
\* notifications of u older than the cursor, and hasNextPage is true exactly
\* when k > limit.  Stated for the two servers that return a connection, one
\* client at a time.
C11_PageSizeAndHasNext ==
    \A p \in Procs :
        (variant \in Cached /\ Answered(p) /\ procs[p].fromStore)
        => LET r == procs[p]
               k == Cardinality(PageSource(r.userId, r.cursor))
           IN  /\ Len(r.val.edges) = Min(r.limit, k)
               /\ \A i \in 1..(Len(r.val.edges) - 1) :
                     r.val.edges[i].node.createdAt >= r.val.edges[i + 1].node.createdAt
               /\ r.val.pageInfo.hasNextPage = (k > r.limit)

\* ------------------------------------------------------------------ C12
\* slot q holds the page fetched with the endCursor of a first page, and a
\* notification of the user that is still visible was created between the
\* two reads of the store
NextPageAfterInsert(q) ==
    /\ Answered(q) /\ procs[q].fromStore
    /\ procs[q].basis # NoBasis
    /\ \E r \in Visible(procs[q].userId) :
          r.id >= procs[q].basis.mark /\ r.id < procs[q].mark

\* C12: when a first page was fetched, a notification was then created for
\* the user and the next page was fetched with the first page's endCursor,
\* the second page repeats nothing of the first page, does not hold the new
\* notification and leaves out none of the notifications that were there
\* and are still to come (short of its limit).  No notification is dismissed
\* on the way.
C12_CursorStable ==
    \A q \in Procs :
        (/\ NextPageAfterInsert(q)
         /\ \A r \in SeqToSet(store) : r.state # "DISMISSED")
        => LET first == procs[q].basis
           IN  /\ NodeIds(procs[q]) \cap first.ids = {}
               /\ \A id \in NodeIds(procs[q]) : id < first.mark
               /\ \A r \in Visible(procs[q].userId) :
                     (r.id < first.mark /\ r.id \notin first.ids)
                     => \/ r.id \in NodeIds(procs[q])
                        \/ /\ Len(Nodes(procs[q])) = procs[q].limit
                           /\ \A i \in 1..Len(Nodes(procs[q])) :
                                 Nodes(procs[q])[i].createdAt >= ToISOString(r.createdAt)

\* ------------------------------------------------------------------ C13
\* slot p holds the answer to getFeed(u, c, l) and nothing has happened since
JustAnswered(p, u, c, l) ==
    /\ Answered(p) /\ procs[p].solo
    /\ procs[p].userId = u /\ procs[p].cursor = c /\ procs[p].limit = l

\* C13: a getFeed sent right after the answer to a getFeed with the same
\* (userId, cursor, limit) is served from the cache and returns the same
\* connection.
C13_GetFeedIdempotent ==
    [][\A p \in Procs, u \in Users, c \in Cursors, l \in Limits :
          (JustAnswered(p, u, c, l) /\ CacheGet(p, u, c, l))
          => /\ procs'[p].pc = "done"
             /\ procs'[p].status = "ok"
             /\ ~procs'[p].fromStore
             /\ procs'[p].val = procs[p].val]_vars
\* the cleanup job has just finished a run that no failure of the store or of
\* the connection disturbed
RunEnded ==
    \/ \E t \in SweepTimes : MemSweep(t)
    \/ SweepReply(FALSE) /\ worker.pool = "open" /\ worker'.run = "idle"

C14_OnMemory ==
    [][RunEnded /\ variant = "memory" =>
         /\ {r \in SeqToSet(store') : r \in Old(worker'.cutoff)} = {}
         /\ SeqToSet(store) \ Old(worker'.cutoff) \subseteq SeqToSet(store')]_vars

\* the same, on a database that runs the DELETE with its LIMIT
C14_WithLimit ==
    [][RunEnded /\ worker.dialect = "limit" =>
         /\ {r \in SeqToSet(store') : r \in Old(worker'.cutoff)} = {}
         /\ SeqToSet(store) \ Old(worker'.cutoff) \subseteq SeqToSet(store')]_vars

\* a run has ended on a store that held an old notification
C14_Case ==
    [][~(RunEnded /\ Old(worker'.cutoff) # {})]_vars

\* ------------------------------------------------------------------ C15
\* the row of the create on slot p is in the store after the step
Kept(p) == \E i \in 1..Len(store') : store'[i].id = procs[p].id

\* C15: when the cache invalidation of a create fails after its insert, the
\* create still returns success and the notification stays in the store.
C15_CreateSurvivesInvalidationFailure ==
    [][\A p \in Procs :
          (InvalidationFails(p) /\ procs[p].op = "create")
          => procs'[p].status = "ok" /\ Kept(p)]_vars

\* ------------------------------------------------------------------ C16
\* the connections a query of the store for getFeed(u, c, l) gives now
Direct(u, c, l) ==
    IF QueryFails(variant, c) THEN {}
    ELSE {FeedValue(variant, rows, l) : rows \in QueryRows(u, c, QueryLimit(variant, l))}

\* C16: when the cache's get or set fails, getFeed does not fail: it returns
\* the connection a direct query of the store gives for its arguments.
C16_ReadSurvivesCacheFailure ==
    [][\A p \in Procs :
          /\ CacheSetFails(p)
             => /\ procs'[p].status = "ok"
                /\ procs'[p].val \in Direct(procs[p].userId, procs[p].cursor, procs[p].limit)
          /\ \A u \in Users, c \in Cursors, l \in Limits :
                CacheGetFails(p, u, c, l)
                => procs'[p].status = "ok" /\ procs'[p].val \in Direct(u, c, l)]_vars

\* ------------------------------------------------------------------ C17
\* C17: when the publish of a create fails, the create still returns the
\* created notification as a success, the notification is in the store and
\* the user's cache entries have been invalidated.
C17_CreateSurvivesPublishFailure ==
    [][\A p \in Procs :
          BusPublishFails(p)
          => /\ procs'[p].status = "ok"
             /\ procs'[p].val = MapRow(procs[p].rows[1])
             /\ Kept(p)
             /\ procs'[p].inv]_vars

\* a create has returned success although its publish failed
C17_Witness ==
    \E p \in Procs :
        /\ procs[p].pc = "done" /\ procs[p].op = "create" /\ procs[p].status = "ok"
        /\ procs[p].solo
        /\ worker.pending
        /\ pubLog = <<>>
        /\ \E i \in 1..Len(store) : store[i].id = procs[p].id

\* ------------------------------------------------------------------ C18
\* the cleanup job sends a DELETE: the first of a run or a further batch
DeleteIssued ==
    \/ \E t \in SweepTimes : TimerFire(t)
    \/ \E t \in SweepTimes : SweepDelay(t)

\* C18: once shutdown has begun the cleanup job sends no further batch after
\* the one in flight, and no DELETE at all once the pool has been ended.
C18_NoDeleteAfterStop ==
    [][/\ DeleteIssued => worker.pool = "open"
       /\ (\E t \in SweepTimes : SweepDelay(t)) => worker.state = "up"]_vars

\* the same, on the typescript server with PostgreSQL only
C18_OnTypescript ==
    [][(variant = "typescript" /\ worker.dialect = "postgres") =>
         /\ DeleteIssued => worker.pool = "open"
         /\ (\E t \in SweepTimes : SweepDelay(t)) => worker.state = "up"]_vars

\* ------------------------------------------------------------------ C19
\* a batch of the run in progress has just failed
BatchFailed ==
    /\ worker.run = "batch"
    /\ worker'.run = "idle"
    /\ worker'.last \in {"fault", "refused"}

\* C19: a failed batch ends the run and nothing else: the process keeps
\* running, the store keeps what the run left, and the run after a failed
\* one, when the store does not fail, leaves no notification older than the
\* retention window.
C19_SweepFailureContained ==
    [][/\ BatchFailed => store' = store /\ procs' = procs
       /\ worker'.state # "crashed"
       /\ (RunEnded /\ worker.last \in {"fault", "refused"})
          => {r \in SeqToSet(store') : r \in Old(worker'.cutoff)} = {}]_vars

\* ------------------------------------------------------------------ C20
\* what an engine without cache answers to getFeed(u, c, l) now
StoreOnly(u, c, l) ==
    IF QueryFails(variant, c) THEN {[status |-> "StoreError", val |-> <<>>]}
    ELSE {[status |-> "ok", val |-> v] : v \in Direct(u, c, l)}

\* slot p receives the response to a getFeed in this step
FeedAnswered(p) ==
    /\ procs[p].pc # "done"
    /\ procs'[p].pc = "done"
    /\ procs'[p].op = "getFeed"

\* C20: with one request at a time, one limit and no cleanup run, every
\* getFeed answer of the cached server is what a query of the store gives at
\* that moment, whatever entries the cache has lost on the way.
C20_CacheIsTransparent ==
    [][\A p \in Procs :
          FeedAnswered(p)
          => [status |-> procs'[p].status, val |-> procs'[p].val]
                \in StoreOnly(procs'[p].userId, procs'[p].cursor, procs'[p].limit)]_vars

\* the same, on the scalable server only
C20_OnScalable ==
    [][\A p \in Procs :
          (FeedAnswered(p) /\ variant = "scalable")
          => [status |-> procs'[p].status, val |-> procs'[p].val]
                \in StoreOnly(procs'[p].userId, procs'[p].cursor, procs'[p].limit)]_vars

\* ------------------------------------------------------------------ C21
\* C21: every getFeed(u, cursor, limit) that is answered, from the cache or
\* from the store, has at most `limit` edges, and says hasNextPage only on a
\* page of `limit` edges: a page built for another limit is never returned.
C21_PageFitsItsLimit ==
    \A p \in Procs :
        (variant \in Cached /\ Answered(p))
        => /\ Len(procs[p].val.edges) <= procs[p].limit
           /\ procs[p].val.pageInfo.hasNextPage
              => Len(procs[p].val.edges) = procs[p].limit

\* the same for the answers that come from the store
C21_FromStore ==
    \A p \in Procs :
        (variant \in Cached /\ Answered(p) /\ procs[p].fromStore)
        => /\ Len(procs[p].val.edges) <= procs[p].limit
           /\ procs[p].val.pageInfo.hasNextPage
              => Len(procs[p].val.edges) = procs[p].limit

\* ------------------------------------------------------------------ C22
\* slot q holds the page a client got by following the endCursor of its own
\* first page, with the same limit and nothing in between
SecondPage(q) == Answered(q) /\ procs[q].basis # NoBasis

\* C22: with no write in between, the first page and the page behind its
\* endCursor have no notification in common, and when the second page says
\* there is no further page the two hold every visible notification of the
\* user, whatever createdAt values the notifications have.  Stated for the
\* scalable server, one client.
C22_TraversalComplete ==
    \A q \in Procs :
        SecondPage(q)
        => /\ NodeIds(procs[q]) \cap procs[q].basis.ids = {}
           /\ ~procs[q].val.pageInfo.hasNextPage
              => NodeIds(procs[q]) \cup procs[q].basis.ids
                    = {r.id : r \in Visible(procs[q].userId)}

\* the same when no two notifications were created in the same millisecond
C22_DistinctMillis ==
    \A q \in Procs :
        (/\ SecondPage(q)
         /\ \A i, j \in 1..Len(store) :
               i # j => ToISOString(store[i].createdAt) # ToISOString(store[j].createdAt))
        => /\ NodeIds(procs[q]) \cap procs[q].basis.ids = {}
           /\ ~procs[q].val.pageInfo.hasNextPage
              => NodeIds(procs[q]) \cup procs[q].basis.ids
                    = {r.id : r \in Visible(procs[q].userId)}

\* ------------------------------------------------------------------ C23
\* the invalidation of the mutation on slot p completes in this step
InvalidationDone(p) ==
    /\ procs[p].pc \in {"keys", "del"}
    /\ ~procs[p].inv
    /\ procs'[p].inv

\* the user whose notification the mutation on slot p wrote
Owner(p) == procs[p].rows[1].userId

\* the cache as it is after the step, for the keys of the users in us
PagesAfter(us) == {<<k, cache'[k]>> : k \in {j \in DOMAIN cache' : j[1] \in us}}

PagesBefore(us) == {<<k, cache[k]>> : k \in {j \in DOMAIN cache : j[1] \in us}}

\* C23: when the invalidation of a successful create or update of a
\* notification owned by u completes, the cache holds no page of u under any
\* key and the pages of every other user are as before; u is the owner the
\* store has recorded.
C23_InvalidatesOwnerOnly ==
    [][\A p \in Procs :
          InvalidationDone(p)
          => /\ procs[p].userId = Owner(p)
             /\ PagesAfter({Owner(p)}) = {}
             /\ PagesAfter(Users \ {Owner(p)}) = PagesBefore(Users \ {Owner(p)})]_vars

\* the same without the first conjunct of the effect: only the frame
C23_FrameOnly ==
    [][\A p \in Procs :
          InvalidationDone(p)
          => /\ procs[p].userId = Owner(p)
             /\ PagesAfter(Users \ {Owner(p)}) = PagesBefore(Users \ {Owner(p)})]_vars

\* ------------------------------------------------------------------ C24
\* a createNotification writes its notification in this step
Created == nextId' = nextId + 1

IdsOf(st) == {st[i].id : i \in 1..Len(st)}

\* C24: a create adds a notification under an id no notification has: the
\* store grows by one, nothing that was there is replaced, and no two
\* notifications have the same id.
C24_IdsUnique ==
    [][Created =>
         /\ Len(store') = Len(store) + 1
         /\ SeqToSet(store) \subseteq SeqToSet(store')
         /\ Cardinality(IdsOf(store')) = Len(store')]_vars

\* the same on the servers whose id is a SERIAL column of the database
C24_OnSerial ==
    [][(Created /\ variant \in Cached) =>
         /\ Len(store') = Len(store) + 1
         /\ SeqToSet(store) \subseteq SeqToSet(store')
         /\ Cardinality(IdsOf(store')) = Len(store')]_vars

\* ------------------------------------------------------------------ C25
\* a getFeed sent in this step is answered in this step: from the cache, or
\* on the memory server from the Map
ServedAtOnce(p) ==
    /\ procs[p].pc = "idle"
    /\ procs'[p].pc = "done"
    /\ procs'[p].op = "getFeed"
    /\ procs'[p].status = "ok"

C25_OnPostgres ==
    [][\A p \in Procs :
          (ServedAtOnce(p) /\ worker.run = "idle" /\ worker.dialect = "postgres")
          => NodeIds(procs'[p]) \subseteq Ids]_vars

\* ------------------------------------------------------------------ C26
\* a step of the cleanup job: a run begins, a batch comes back, the next
\* batch is sent
SweepStep ==
    \/ \E t \in SweepTimes : TimerFire(t)
    \/ \E fault \in BOOLEAN : SweepReply(fault)
    \/ \E t \in SweepTimes : SweepDelay(t)
    \/ \E t \in SweepTimes : MemSweep(t)

\* C26: no step of a cleanup run changes the cache of any user or what has
\* been published on the bus; a run changes the store only.
C26_SweepTouchesStoreOnly ==
    [][SweepStep => cache' = cache /\ pubLog' = pubLog /\ subs' = subs]_vars

\* a run has deleted a notification that a cached page still shows
C26_Witness ==
    /\ worker.last = "complete"
    /\ worker.aged > 0
    /\ \E k \in DOMAIN cache :
          /\ variant = "scalable"
          /\ \E i \in 1..Len(cache[k].edges) : cache[k].edges[i].node.id \notin Ids

\* ------------------------------------------------------------------ C27
\* a step of an updateUserNotification on slot p
UpdateMoves(p) == procs'[p] # procs[p] /\ procs'[p].op = "update"

\* the messages published for user u
PublishedFor(u) == {i \in 1..Len(pubLog) : pubLog[i].userId = u}

\* the notifications created for user u (rows are never deleted here)
CreatedFor(u) == {r \in SeqToSet(store) : r.userId = u}

RunCompleted ==
    /\ SweepReply(FALSE)
    /\ worker'.run = "idle"
    /\ worker'.last = "complete"

\* C28: a run with no failing batch ends, and it ends with the first batch
\* that deletes fewer rows than the batch size: for k rows deleted it has
\* sent k \div BatchSize + 1 statements, and the delay between batches is
\* taken after full batches only.  On the scalable server k is the number of
\* rows older than the retention window when the run began.
C28_BatchCount ==
    /\ [][/\ RunCompleted
             => /\ worker'.batches = (worker'.deleted \div BatchSize) + 1
                /\ variant = "scalable" => worker'.deleted = worker'.aged
          /\ (worker.run = "batch" /\ worker'.run = "delay")
             => worker'.deleted = worker.deleted + BatchSize]_vars
    /\ (worker.run # "idle")
          ~> (worker.run = "idle" \/ worker.state \in {"exited", "crashed"})

\* a run of two batches has completed: a full one and an empty one
C28_Witness ==
    /\ worker.last = "complete"
    /\ worker.run = "idle"
    /\ worker.batches = 2
    /\ worker.deleted = BatchSize
    /\ variant \in Cached

\* ------------------------------------------------------------------ C29
\* C29: a cached page is served for less than the time to live it was
\* written with: every entry is written with Ttl seconds to live, a hit
\* leaves the time left as it is, so an entry has Ttl minus its age left and
\* is gone at age Ttl; a getFeed that finds no entry under its key reads the
\* store, and its answer is the page made of the rows that query read.
C29_StalenessBoundedByTtl ==
    /\ [](\A k \in DOMAIN cache :
             /\ k \in DOMAIN life
             /\ life[k].age < Ttl
             /\ life[k].ttl = Ttl - life[k].age)
    /\ [][\A p \in Procs :
            /\ \A u \in Users, c \in Cursors, l \in Limits :
                  CacheGet(p, u, c, l)
                  => IF CacheKey(u, c) \in DOMAIN cache
                     THEN life' = life
                     ELSE procs'[p].pc = "query" /\ cache' = cache
            /\ StoreQuery(p) /\ ~QueryFails(variant, procs[p].cursor)
               => procs'[p].rows \in QueryRows(procs[p].userId, procs[p].cursor,
                                               QueryLimit(variant, procs[p].limit))
            /\ CacheSet(p)
               => LET key == CacheKey(procs[p].userId, procs[p].cursor)
                  IN  /\ life'[key].ttl = Ttl
                      /\ life'[key].age = 0
                      /\ procs'[p].status = "ok"
                      /\ procs'[p].val = FeedValue(variant, procs[p].rows, procs[p].limit)]_vars

\* a page that disagreed with the store ran out of time, and the next
\* getFeed for its key has been answered with what the store gives
C29_Witness ==
    \E p \in Procs :
        LET r == procs[p]
            key == CacheKey(r.userId, r.cursor)
        IN  /\ r.pc = "done"
            /\ r.op = "getFeed"
            /\ r.status = "ok"
            /\ r.fromStore
            /\ key \in DOMAIN cache
            /\ life[key].renewed
            /\ r.val \in Direct(r.userId, r.cursor, r.limit)

\* ------------------------------------------------------------------ C30
\* the rows that leave the store in this step
Removed == SeqToSet(store) \ SeqToSet(store')

\* a batch of job w (w2 after the step) has run and did what a sweep may do:
\* it removed only rows older than the job's date, it counted each row it
\* removed once, and when it was the run's last batch no row older than
\* that date is left
SweptSafely(w, w2) ==
    /\ Removed \subseteq Old(w.cutoff)
    /\ w2.deleted = w.deleted + Cardinality(Removed)
    /\ w2.run = "idle" => {r \in SeqToSet(store') : r \in Old(w.cutoff)} = {}

\* job w starts a run (w2 after the step) at the date of its last, completed
\* run
StartsAgain(w, w2) ==
    /\ w.run = "idle"
    /\ w2.run = "batch"
    /\ w.last = "complete"
    /\ w2.cutoff = w.cutoff

\* C30: with the cleanup jobs of two workers running on the shared store,
\* every batch removes only rows older than the retention window and counts
\* each removed row once, a run ends with no older row left, a run started
\* at the date of a completed run finds nothing to delete, and every run
\* ends.
C30_SweepsTogether ==
    /\ [][/\ SweepReply(FALSE) => SweptSafely(worker, worker')
          /\ PeerReply(FALSE) => SweptSafely(peer, peer')
          /\ StartsAgain(worker, worker') => worker'.aged = 0
          /\ StartsAgain(peer, peer') => peer'.aged = 0]_vars
    /\ (worker.run # "idle") ~> (worker.run = "idle")
    /\ (peer.run # "idle") ~> (peer.run = "idle")

\* the same on a database that runs the DELETE with its LIMIT
C30_WithLimit ==
    /\ [][worker.dialect = "limit"
          => /\ SweepReply(FALSE) => SweptSafely(worker, worker')
             /\ PeerReply(FALSE) => SweptSafely(peer, peer')
             /\ StartsAgain(worker, worker') => worker'.aged = 0
             /\ StartsAgain(peer, peer') => peer'.aged = 0]_vars
    /\ (worker.run # "idle") ~> (worker.run = "idle")
    /\ (peer.run # "idle") ~> (peer.run = "idle")

\* the two runs overlap on a database that runs the DELETE: one job waits
\* after a full batch while the DELETE of the other is on its way to the
\* row the first has left
C30_Overlap ==
    /\ worker.dialect = "limit"
    /\ worker.run = "delay"
    /\ worker.deleted = BatchSize
    /\ peer.run = "batch"
    /\ Old(peer.cutoff) # {}

====
